---- MODULE Spec2Model ----
(***************************************************************************)
(* Telemetry-to-state inference engine of the laundry monitor (class       *)
(* MqttClient, src/unnamed/part_005): payload normalisation, per-machine   *)
(* start/stop state machine with a debounced stop, the dryer-pair          *)
(* disambiguator and the daily stats ledger with its write-through file.   *)
(*                                                                         *)
(* Units: time in milliseconds (Date.now()), power in watts, current in    *)
(* tenths of an ampere (3.5 A is 35).  A calendar date (_today(), the UTC  *)
(* "YYYY-MM-DD" string) is represented by its day number now \div DayMs.   *)
(*                                                                         *)
(* client is this.client: "none" while null, else the transport client by  *)
(* its connected flag ("connected", "disconnected").  debug holds the      *)
(* connection fields of this.debug (isConnected, connectedAt, lastError,   *)
(* lastErrorAt, brokerUrl); a broker URL and an error message are          *)
(* represented by the number 1; the per-message counters                   *)
(* (messagesReceived, lastMessage...) are written by the message handler   *)
(* and read by getDebugStatus only, and are not part of the state here.    *)
(* The letter s-caron of the dryers' names is written s.                   *)
(***************************************************************************)
EXTENDS Integers, Sequences, FiniteSets, TLC

VARIABLES machines, stopTimers, timeouts, stats, disk, client, debug, now, effects, emitted,
          last, scenario

vars == <<machines, stopTimers, timeouts, stats, disk, client, debug, now, effects, emitted,
          last, scenario>>

(***************************************************************************)
(* Values                                                                  *)
(***************************************************************************)
Null == -1          \* JavaScript null (startedAt, lastStartedAt, a cleared timer)
Undefined == -2     \* JavaScript undefined (an absent field)
NaN == -3           \* parseInt of a non-numeric channel suffix

DayMs == 86400000

MachineIds == 1 .. 8
MachineNames ==
    <<"Pralnik 10kg #1", "Pralnik 10kg #2", "Pralnik 10kg #3", "Pralnik 18kg",
      "Susilnik A1", "Susilnik A2", "Susilnik B1", "Susilnik B2">>
HourMs == 3600000
MinuteMs == 60000

DRYER_CHANNEL_MAP == [c \in {5, 6} |-> IF c = 5 THEN <<5, 6>> ELSE <<7, 8>>]
DRYER_DUAL_CURRENT_THRESHOLD == 35
DRYER_START_POWER == 100
DRYER_STOP_POWER == 50
WASHER_START_POWER == 10
WASHER_STOP_POWER == 5
STOP_DELAY_THREE_MINUTES == 3 * 60 * 1000

STOP_DELAY_MS == 60 * 1000

(***************************************************************************)
(* Bounds of the model                                                     *)
(***************************************************************************)
MaxTicks == 5
MaxDryerTicks == 3
TickMs == 30 * 1000
StartTime == DayMs - 3 * TickMs
TickSteps == {TickMs, 2 * TickMs}

(***************************************************************************)
(* JavaScript helpers                                                      *)
(***************************************************************************)
\* Numbers are the non-negative integers; Null, Undefined and NaN are below them.
IsNumber(v) == v >= 0
Truthy(v) == v > 0
Or(a, b) == IF Truthy(a) THEN a ELSE b
Gt(a, b) == IsNumber(a) /\ IsNumber(b) /\ a > b
Lt(a, b) == IsNumber(a) /\ IsNumber(b) /\ a < b
Ge(a, b) == IsNumber(a) /\ IsNumber(b) /\ a >= b

Today(t) == t \div DayMs

\* stopTimers[id] is the handle setTimeout returned, or null; timeouts is the
\* timer table of the runtime: the callbacks scheduled and not yet run or cleared,
\* each with what its closure captured (id, startedAt) and the time it is due.
NoTimer == [live |-> FALSE, due |-> 0, startedAt |-> Null]
Timeout(id, due, startedAt) == [id |-> id, due |-> due, startedAt |-> startedAt]
HandleOf(tm) == [live |-> TRUE, due |-> tm.due, startedAt |-> tm.startedAt]
NewDebug ==
    [isConnected |-> FALSE, connectedAt |-> Null, lastError |-> Null, lastErrorAt |-> Null,
     brokerUrl |-> Null]
NewMachine == [power |-> 0, isRunning |-> FALSE, startedAt |-> Null, lastStartedAt |-> Null]
Effect(kind, id) == [kind |-> kind, id |-> id]

(***************************************************************************)
(* The stats file.  Its content is the JSON text of the ledger, represented *)
(* by the list of its members in the order JSON.stringify writes them       *)
(* (dates in order of creation, channels in ascending order), each          *)
(* [date, channel, starts, runtimeMs]; kind tells a file that is absent,    *)
(* empty, cut short, or whole.                                              *)
(***************************************************************************)
EmptyStats == [k \in {} |-> [starts |-> 0, runtimeMs |-> 0]]
File(kind, text) == [kind |-> kind, text |-> text]
MissingFile == File("missing", <<>>)
EmptyFile == File("empty", <<>>)

KeyBefore(a, b) == a[1] < b[1] \/ (a[1] = b[1] /\ a[2] < b[2])
RECURSIVE Stringify(_)
Stringify(st) ==
    IF DOMAIN st = {} THEN <<>>
    ELSE LET k == CHOOSE x \in DOMAIN st : \A y \in DOMAIN st : y = x \/ KeyBefore(x, y)
             rest == [y \in DOMAIN st \ {k} |-> st[y]]
         IN  <<[date |-> k[1], channel |-> k[2],
                starts |-> st[k].starts, runtimeMs |-> st[k].runtimeMs]>> \o Stringify(rest)

Parse(text) ==
    [k \in {<<text[i].date, text[i].channel>> : i \in DOMAIN text} |->
        LET i == CHOOSE j \in DOMAIN text : <<text[j].date, text[j].channel>> = k
        IN  [starts |-> text[i].starts, runtimeMs |-> text[i].runtimeMs]]

LoadStats(file) ==
    CASE file.kind = "missing" -> EmptyStats
      [] file.kind = "empty" -> EmptyStats
      [] file.kind = "partial" -> EmptyStats
      [] OTHER -> Parse(file.text)

(***************************************************************************)
(* The engine state threaded through one handler: s.wq is the outcome of   *)
(* the successive writeFileSync calls the handler will make, s.thrown is   *)
(* set once an exception is on its way to the message handler's catch.     *)
(***************************************************************************)
WriteResults == {"ok", "failed", "truncated"}

EnsureDayEntryFreshDay(st, date, channel) ==
    IF <<date, channel>> \in DOMAIN st
    THEN st
    ELSE [k \in {x \in DOMAIN st : x[1] # date} \cup {<<date, channel>>} |->
            IF k = <<date, channel>> THEN [starts |-> 0, runtimeMs |-> 0] ELSE st[k]]

EnsureDayEntry(st, date, channel) ==
    IF <<date, channel>> \in DOMAIN st
    THEN st
    ELSE [k \in DOMAIN st \cup {<<date, channel>>} |->
            IF k = <<date, channel>> THEN [starts |-> 0, runtimeMs |-> 0] ELSE st[k]]

SaveStatsDeferred(s) ==
    [s EXCEPT !.wq = IF Len(s.wq) = 0 THEN s.wq ELSE Tail(s.wq),
              !.effects = Append(s.effects, Effect("saved", 0))]

SaveStatsRollback(s) ==
    LET outcome == IF Len(s.wq) = 0 THEN "ok" ELSE Head(s.wq)
    IN  [s EXCEPT !.disk = CASE outcome = "ok" -> File("json", Stringify(s.stats))
                             [] outcome = "truncated" -> EmptyFile
                             [] OTHER -> s.disk,
                  !.stats = IF outcome = "ok" THEN s.stats ELSE LoadStats(s.disk),
                  !.wq = IF Len(s.wq) = 0 THEN s.wq ELSE Tail(s.wq),
                  !.effects = Append(s.effects,
                                     Effect(IF outcome = "ok" THEN "saved" ELSE "saveFailed", 0))]

\* writeFileSync opens the file truncating it and then writes: it succeeds
\* ("ok"), fails before the file is touched ("failed") or fails after the
\* truncation ("truncated"); _saveStats catches either failure.
SaveStats(s) ==
    LET outcome == IF Len(s.wq) = 0 THEN "ok" ELSE Head(s.wq)
    IN  [s EXCEPT !.disk = CASE outcome = "ok" -> File("json", Stringify(s.stats))
                             [] outcome = "truncated" -> EmptyFile
                             [] OTHER -> s.disk,
                  !.wq = IF Len(s.wq) = 0 THEN s.wq ELSE Tail(s.wq),
                  !.effects = Append(s.effects,
                                     Effect(IF outcome = "ok" THEN "saved" ELSE "saveFailed", 0))]

RecordStart(s, id, t) ==
    LET key == <<Today(t), id>>
        st == EnsureDayEntry(s.stats, Today(t), id)
    IN  SaveStats([s EXCEPT !.stats = [st EXCEPT ![key].starts = @ + 1]])

RecordRuntime(s, id, runtimeMs, t) ==
    LET key == <<Today(t), id>>
        st == EnsureDayEntry(s.stats, Today(t), id)
    IN  SaveStats([s EXCEPT !.stats = [st EXCEPT ![key].runtimeMs = @ + runtimeMs]])

\* emit runs the listeners synchronously: they are handed the machine record
\* and can read the ledger (getStats) as both are at that moment.
Delivered(kind, id, machine, ledger) ==
    [kind |-> kind, id |-> id, machine |-> machine, stats |-> ledger]
Emit(s, kind, id) ==
    [s EXCEPT !.effects = Append(s.effects, Effect(kind, id)),
              !.emitted = Append(s.emitted, Delivered(kind, id, s.machines[id], s.stats))]

ClearStopTimerForgotten(s, id) == s

ClearStopTimerHandleOnly(s, id) ==
    IF s.stopTimers[id].live
    THEN [s EXCEPT !.stopTimers[id] = NoTimer] ELSE s

\* A clearTimeout that cannot cancel a callback that is already due.
ClearStopTimerNotDue(s, id) ==
    IF s.stopTimers[id].live
    THEN [s EXCEPT !.timeouts = {tm \in @ : ~(tm.id = id /\ HandleOf(tm) = s.stopTimers[id]
                                                /\ now < tm.due)},
                   !.stopTimers[id] = NoTimer,
                   !.effects = Append(s.effects, Effect("clearTimeout", id))]
    ELSE s

ClearStopTimer(s, id) ==
    IF s.stopTimers[id].live
    THEN [s EXCEPT !.timeouts = {tm \in @ : ~(tm.id = id /\ HandleOf(tm) = s.stopTimers[id])},
                   !.stopTimers[id] = NoTimer,
                   !.effects = Append(s.effects, Effect("clearTimeout", id))]
    ELSE s

StartMachineUnguarded(s, id, t) ==
    Emit(RecordStart([s EXCEPT !.machines[id].isRunning = TRUE,
                               !.machines[id].startedAt = t,
                               !.machines[id].lastStartedAt = t], id, t),
         "machineStarted", id)

\* A start that emits before it counts.
StartMachineEmitFirst(s, id, t) ==
    IF ~s.machines[id].isRunning
    THEN RecordStart(Emit([s EXCEPT !.machines[id].isRunning = TRUE,
                                    !.machines[id].startedAt = t,
                                    !.machines[id].lastStartedAt = t],
                          "machineStarted", id), id, t)
    ELSE s

StartMachine(s, id, t) ==
    IF ~s.machines[id].isRunning
    THEN Emit(RecordStart([s EXCEPT !.machines[id].isRunning = TRUE,
                                    !.machines[id].startedAt = t,
                                    !.machines[id].lastStartedAt = t], id, t),
              "machineStarted", id)
    ELSE s

ArmStopTimerUnguarded(s, id, t) ==
    IF s.machines[id].isRunning
    THEN LET tm == Timeout(id, t + STOP_DELAY_MS, s.machines[id].startedAt)
         IN  [s EXCEPT !.timeouts = @ \cup {tm},
                       !.stopTimers[id] = HandleOf(tm),
                       !.effects = Append(s.effects, Effect("setTimeout", id))]
    ELSE s

\* A stop branch that restarts the countdown on every request to stop.
ArmStopTimerRestart(s, id, t) ==
    IF s.machines[id].isRunning
    THEN LET tm == Timeout(id, t + STOP_DELAY_MS, s.machines[id].startedAt)
         IN  [s EXCEPT !.timeouts = {x \in @ : x.id # id} \cup {tm},
                       !.stopTimers[id] = HandleOf(tm),
                       !.effects = Append(s.effects, Effect("setTimeout", id))]
    ELSE s

ArmStopTimer(s, id, t) ==
    IF s.machines[id].isRunning /\ ~s.stopTimers[id].live
    THEN LET tm == Timeout(id, t + STOP_DELAY_MS, s.machines[id].startedAt)
         IN  [s EXCEPT !.timeouts = @ \cup {tm},
                       !.stopTimers[id] = HandleOf(tm),
                       !.effects = Append(s.effects, Effect("setTimeout", id))]
    ELSE s

SetMachineRunning(s, id, running, t) ==
    IF id \notin MachineIds THEN s
    ELSE IF running THEN StartMachine(ClearStopTimer(s, id), id, t)
    ELSE ArmStopTimer(s, id, t)

StopTimerFiredArmTime(s, tm, t) ==
    LET id == tm.id
        startedAt == tm.startedAt
        armedAt == tm.due - STOP_DELAY_MS
        s0 == [s EXCEPT !.timeouts = @ \ {tm}]
        s1 == IF startedAt # Null THEN RecordRuntime(s0, id, armedAt - startedAt, t) ELSE s0
        s2 == [s1 EXCEPT !.machines[id].isRunning = FALSE,
                         !.machines[id].startedAt = Null]
    IN  [Emit(s2, "machineStopped", id) EXCEPT !.stopTimers[id] = NoTimer]

StopTimerFiredEmitFirst(s, tm, t) ==
    LET id == tm.id
        startedAt == tm.startedAt
        s0 == [s EXCEPT !.timeouts = @ \ {tm}]
        s1 == IF startedAt # Null THEN RecordRuntime(s0, id, t - startedAt, t) ELSE s0
        s2 == Emit(s1, "machineStopped", id)
    IN  [s2 EXCEPT !.machines[id].isRunning = FALSE,
                   !.machines[id].startedAt = Null,
                   !.stopTimers[id] = NoTimer]

\* A callback that does not reset this.stopTimers[id].
StopTimerFiredKeepHandle(s, tm, t) ==
    LET id == tm.id
        startedAt == tm.startedAt
        s0 == [s EXCEPT !.timeouts = @ \ {tm}]
        s1 == IF startedAt # Null THEN RecordRuntime(s0, id, t - startedAt, t) ELSE s0
        s2 == [s1 EXCEPT !.machines[id].isRunning = FALSE,
                         !.machines[id].startedAt = Null]
    IN  Emit(s2, "machineStopped", id)

\* A callback that books the runtime on the date the run started.
StopTimerFiredStartDate(s, tm, t) ==
    LET id == tm.id
        startedAt == tm.startedAt
        s0 == [s EXCEPT !.timeouts = @ \ {tm}]
        s1 == IF startedAt # Null THEN RecordRuntime(s0, id, t - startedAt, startedAt) ELSE s0
        s2 == [s1 EXCEPT !.machines[id].isRunning = FALSE,
                         !.machines[id].startedAt = Null]
    IN  [Emit(s2, "machineStopped", id) EXCEPT !.stopTimers[id] = NoTimer]

\* A callback that also forgets when the machine last started.
StopTimerFiredForgetful(s, tm, t) ==
    LET id == tm.id
        startedAt == tm.startedAt
        s0 == [s EXCEPT !.timeouts = @ \ {tm}]
        s1 == IF startedAt # Null THEN RecordRuntime(s0, id, t - startedAt, t) ELSE s0
        s2 == [s1 EXCEPT !.machines[id].isRunning = FALSE,
                         !.machines[id].startedAt = Null,
                         !.machines[id].lastStartedAt = Null]
    IN  [Emit(s2, "machineStopped", id) EXCEPT !.stopTimers[id] = NoTimer]

\* The callback of a stop timer, run by the runtime at time t.
StopTimerFired(s, tm, t) ==
    LET id == tm.id
        startedAt == tm.startedAt
        s0 == [s EXCEPT !.timeouts = @ \ {tm}]
        s1 == IF startedAt # Null THEN RecordRuntime(s0, id, t - startedAt, t) ELSE s0
        s2 == [s1 EXCEPT !.machines[id].isRunning = FALSE,
                         !.machines[id].startedAt = Null]
    IN  [Emit(s2, "machineStopped", id) EXCEPT !.stopTimers[id] = NoTimer]

SetPower(s, id, power) ==
    IF id \in MachineIds THEN [s EXCEPT !.machines[id].power = power] ELSE s

UpdateDryerPairStrictCurrent(s, physicalChannel, power, current, t) ==
    LET id1 == DRYER_CHANNEL_MAP[physicalChannel][1]
        id2 == DRYER_CHANNEL_MAP[physicalChannel][2]
        anyRunning == Gt(power, DRYER_START_POWER)
        bothRunning == anyRunning /\ current # Undefined
                         /\ Gt(current, DRYER_DUAL_CURRENT_THRESHOLD)
        stopped == Lt(power, DRYER_STOP_POWER)
        s1 == SetPower(SetPower(s, id1, power), id2, power)
        s2 == SetMachineRunning(s1, id1, anyRunning, t)
        s3 == SetMachineRunning(s2, id2, bothRunning, t)
    IN  IF stopped
        THEN SetMachineRunning(SetMachineRunning(s3, id1, FALSE, t), id2, FALSE, t)
        ELSE s3

UpdateDryerPairCurrentOnly(s, physicalChannel, power, current, t) ==
    LET id1 == DRYER_CHANNEL_MAP[physicalChannel][1]
        id2 == DRYER_CHANNEL_MAP[physicalChannel][2]
        anyRunning == Gt(power, DRYER_START_POWER)
        bothRunning == current # Undefined /\ Ge(current, DRYER_DUAL_CURRENT_THRESHOLD)
        stopped == Lt(power, DRYER_STOP_POWER)
        s1 == SetPower(SetPower(s, id1, power), id2, power)
        s2 == SetMachineRunning(s1, id1, anyRunning, t)
        s3 == SetMachineRunning(s2, id2, bothRunning, t)
    IN  IF stopped
        THEN SetMachineRunning(SetMachineRunning(s3, id1, FALSE, t), id2, FALSE, t)
        ELSE s3

\* A disambiguator with the two units exchanged.
UpdateDryerPairSwapped(s, physicalChannel, power, current, t) ==
    LET id1 == DRYER_CHANNEL_MAP[physicalChannel][1]
        id2 == DRYER_CHANNEL_MAP[physicalChannel][2]
        anyRunning == Gt(power, DRYER_START_POWER)
        bothRunning == anyRunning /\ current # Undefined
                         /\ Ge(current, DRYER_DUAL_CURRENT_THRESHOLD)
        stopped == Lt(power, DRYER_STOP_POWER)
        s1 == SetPower(SetPower(s, id1, power), id2, power)
        s2 == SetMachineRunning(s1, id1, bothRunning, t)
        s3 == SetMachineRunning(s2, id2, anyRunning, t)
    IN  IF stopped
        THEN SetMachineRunning(SetMachineRunning(s3, id1, FALSE, t), id2, FALSE, t)
        ELSE s3

\* A disambiguator that asks both units to run only on a dual current.
UpdateDryerPairBothOrNone(s, physicalChannel, power, current, t) ==
    LET id1 == DRYER_CHANNEL_MAP[physicalChannel][1]
        id2 == DRYER_CHANNEL_MAP[physicalChannel][2]
        anyRunning == Gt(power, DRYER_START_POWER)
        bothRunning == anyRunning /\ current # Undefined
                         /\ Ge(current, DRYER_DUAL_CURRENT_THRESHOLD)
        stopped == Lt(power, DRYER_STOP_POWER)
        s1 == SetPower(SetPower(s, id1, power), id2, power)
        s2 == SetMachineRunning(s1, id1, bothRunning, t)
        s3 == SetMachineRunning(s2, id2, bothRunning, t)
    IN  IF stopped
        THEN SetMachineRunning(SetMachineRunning(s3, id1, FALSE, t), id2, FALSE, t)
        ELSE s3

UpdateDryerPair(s, physicalChannel, power, current, t) ==
    LET id1 == DRYER_CHANNEL_MAP[physicalChannel][1]
        id2 == DRYER_CHANNEL_MAP[physicalChannel][2]
        anyRunning == Gt(power, DRYER_START_POWER)
        bothRunning == anyRunning /\ current # Undefined
                         /\ Ge(current, DRYER_DUAL_CURRENT_THRESHOLD)
        stopped == Lt(power, DRYER_STOP_POWER)
        s1 == SetPower(SetPower(s, id1, power), id2, power)
        s2 == SetMachineRunning(s1, id1, anyRunning, t)
        s3 == SetMachineRunning(s2, id2, bothRunning, t)
    IN  IF stopped
        THEN SetMachineRunning(SetMachineRunning(s3, id1, FALSE, t), id2, FALSE, t)
        ELSE s3

UpdateMachineStatusAliased(s, channel, currentPower, t) ==
    LET id == IF channel \in MachineIds THEN channel ELSE 1
        s1 == SetPower(s, id, currentPower)
    IN  IF Gt(currentPower, WASHER_START_POWER)
        THEN SetMachineRunning(s1, id, TRUE, t)
        ELSE IF Lt(currentPower, WASHER_STOP_POWER)
        THEN SetMachineRunning(s1, id, FALSE, t)
        ELSE s1

UpdateMachineStatus(s, channel, currentPower, t) ==
    IF channel \notin MachineIds THEN s
    ELSE LET s1 == SetPower(s, channel, currentPower)
         IN  IF Gt(currentPower, WASHER_START_POWER)
             THEN SetMachineRunning(s1, channel, TRUE, t)
             ELSE IF Lt(currentPower, WASHER_STOP_POWER)
             THEN SetMachineRunning(s1, channel, FALSE, t)
             ELSE s1


(***************************************************************************)
(* Payloads.  A decoded message is [shape, entries, channel, power]:       *)
(*   "notify"   entries are the em:<n> members of params, in key order;    *)
(*   "flat"     channel and power list the values found under the          *)
(*              spellings channel/Channel and                              *)
(*              power/Power/active_power/ActivePower;                      *)
(*   "channels" entries are the elements of data.channels;                 *)
(*   "energy"   entries are the elements of data.energy (position = index);*)
(*   "other"    valid JSON of no recognised shape;                         *)
(*   "null"     the JSON text null, whose member access throws;            *)
(*   "garbage"  bytes that JSON.parse rejects.                             *)
(* An entry is [channel, power, current, malformed]; malformed stands for  *)
(* a null element, whose field access throws.                              *)
(***************************************************************************)
Entry(channel, power, current) ==
    [channel |-> channel, power |-> power, current |-> current, malformed |-> FALSE]
Msg(shape, entries, channel, power) ==
    [shape |-> shape, entries |-> entries, channel |-> channel, power |-> power]
NoMsg == Msg("none", <<>>, <<>>, <<>>)

RECURSIVE OrAll(_)
OrAll(vals) ==
    IF Len(vals) = 0 THEN Undefined
    ELSE IF Len(vals) = 1 THEN vals[1]
    ELSE Or(vals[1], OrAll(Tail(vals)))

Throw(s) == [s EXCEPT !.thrown = TRUE]

NotifyEntry(s, e, t) ==
    IF e.malformed THEN Throw(s)
    ELSE IF e.channel # NaN /\ e.power # Undefined
    THEN IF e.channel \in DOMAIN DRYER_CHANNEL_MAP
         THEN UpdateDryerPair(s, e.channel, e.power, e.current, t)
         ELSE UpdateMachineStatus(s, e.channel, e.power, t)
    ELSE s

ChannelsEntry(s, e, t) ==
    IF e.malformed THEN Throw(s) ELSE UpdateMachineStatus(s, e.channel, e.power, t)

EnergyEntry(s, e, index, t) ==
    IF e.malformed THEN Throw(s)
    ELSE UpdateMachineStatus(s, index + 1, IF e.power # Undefined THEN e.power ELSE 0, t)

RECURSIVE ForEach(_, _, _, _, _)
ForEach(s, shape, entries, index, t) ==
    IF index >= Len(entries) \/ s.thrown THEN s
    ELSE LET e == entries[index + 1]
             s1 == CASE shape = "notify" -> NotifyEntry(s, e, t)
                     [] shape = "channels" -> ChannelsEntry(s, e, t)
                     [] OTHER -> EnergyEntry(s, e, index, t)
         IN  ForEach(s1, shape, entries, index + 1, t)

HandleDeviceData(s, data, t) ==
    IF data.shape = "null" THEN Throw(s)
    ELSE IF data.shape = "notify" THEN ForEach(s, "notify", data.entries, 0, t)
    ELSE LET channel == OrAll(data.channel)
             power == OrAll(data.power)
         IN  IF data.shape = "channels" THEN ForEach(s, "channels", data.entries, 0, t)
             ELSE IF channel # Undefined /\ power # Undefined
             THEN UpdateMachineStatus(s, channel, power, t)
             ELSE IF data.shape = "energy" THEN ForEach(s, "energy", data.entries, 0, t)
             ELSE s

\* The body of the handler's try block: JSON.parse, then handleDeviceData.
ParseAndHandle(s, msg, t) ==
    IF msg.shape = "garbage" THEN Throw(s) ELSE HandleDeviceData(s, msg, t)

OnMessageUncaught(s, msg, t) == ParseAndHandle(s, msg, t)

OnMessage(s, msg, t) == [ParseAndHandle(s, msg, t) EXCEPT !.thrown = FALSE]

(***************************************************************************)
(* Inputs of the model                                                     *)
(***************************************************************************)
Reading(channel, power, current) ==
    Msg("notify", <<Entry(channel, power, current)>>, <<>>, <<>>)
Flat(channel, power) ==
    Msg("flat", <<>>, <<channel, Undefined>>, <<power, Undefined, Undefined, Undefined>>)

WasherPowers == {2, 5, 10, 15}
DryerReadings == {<<40, Undefined>>, <<40, 20>>, <<40, 40>>, <<50, Undefined>>, <<75, 40>>,
                  <<100, 40>>, <<120, Undefined>>, <<120, 20>>, <<120, 35>>}

WasherMessages ==
    {Reading(1, p, Undefined) : p \in WasherPowers}
    \cup {Flat(1, 0), Flat(1, 15), Flat(9, 15),
          Msg("other", <<>>, <<>>, <<>>), Msg("null", <<>>, <<>>, <<>>),
          Msg("garbage", <<>>, <<>>, <<>>)}
DryerMessages ==
    {Reading(5, r[1], r[2]) : r \in DryerReadings} \cup {Flat(5, 75), Flat(5, 100)}

\* The two scenarios of the specification, as readings with the window of time
\* (relative to the first reading) in which each is delivered.
Step(from, to, msg) == [from |-> from, to |-> to, msg |-> msg]
ScenarioStepMs == 15 * 1000
WasherScenario ==
    <<Step(0, 0, Reading(1, 0, Undefined)),
      Step(0, 15 * 1000, Reading(1, 15, Undefined)),
      Step(30 * 1000, 30 * 1000, Reading(1, 2, Undefined)),
      Step(45 * 1000, 45 * 1000, Reading(1, 20, Undefined)),
      Step(300 * 1000, 300 * 1000, Reading(1, 2, Undefined))>>
DryerScenario ==
    <<Step(0, 15 * 1000, Reading(5, 120, 20)),
      Step(15 * 1000, 90 * 1000, Reading(5, 240, 40))>>
Scenarios == <<WasherScenario, DryerScenario>>
ScenarioEnd(sc) == sc[Len(sc)].to + STOP_DELAY_MS + ScenarioStepMs

(***************************************************************************)
(* The state machine                                                       *)
(***************************************************************************)
Engine(wq) ==
    [machines |-> machines, stopTimers |-> stopTimers, timeouts |-> timeouts,
     stats |-> stats, disk |-> disk,
     effects |-> <<>>, emitted |-> <<>>, wq |-> wq, thrown |-> FALSE]

Commit(s) ==
    /\ machines' = s.machines
    /\ stopTimers' = s.stopTimers
    /\ timeouts' = s.timeouts
    /\ stats' = s.stats
    /\ disk' = s.disk
    /\ effects' = s.effects
    /\ emitted' = s.emitted
    /\ UNCHANGED <<client, debug>>

NoScenario == [id |-> 0, pos |-> 0, log |-> <<>>]

\* The state after construction, with the stats file the process finds.
ConstructedOn(file) ==
    /\ machines = [id \in MachineIds |-> NewMachine]
    /\ stopTimers = [id \in MachineIds |-> NoTimer]
    /\ timeouts = {}
    /\ disk = file
    /\ stats = LoadStats(disk)
    /\ client = "none"
    /\ debug = NewDebug
    /\ now = StartTime
    /\ effects = <<>>
    /\ emitted = <<>>
    /\ last = [op |-> "init", msg |-> NoMsg, id |-> 0, at |-> StartTime]

Constructed == ConstructedOn(MissingFile)

Init == Constructed /\ scenario = NoScenario

\* Every outcome of the writeFileSync calls a handler makes: the number of calls
\* does not depend on their outcomes, a failed write being caught in _saveStats.
NumWrites(s) == Len(SelectSeq(s.effects, LAMBDA e : e.kind \in {"saved", "saveFailed"}))
WriteOutcomes(n) == [1 .. n -> WriteResults]
OutcomesFor(msg) == WriteOutcomes(NumWrites(OnMessage(Engine(<<>>), msg, now)))

\* The events the handler that just ran emitted, stamped with their time.
IsEvent(e) == e.kind \in {"machineStarted", "machineStopped"}
Events(effs) == SelectSeq(effs, IsEvent)
Stamp(effs, t) == [i \in 1 .. Len(effs) |-> [kind |-> effs[i].kind, id |-> effs[i].id, at |-> t]]

\* A 'message' handler that ingests readings only while isConnected is set.
MessageIfConnected(msg, wq) ==
    /\ Commit(IF debug.isConnected THEN OnMessage(Engine(wq), msg, now) ELSE Engine(wq))
    /\ last' = [op |-> "message", msg |-> msg, id |-> 0, at |-> now]
    /\ UNCHANGED now

Message(msg, wq) ==
    /\ Commit(OnMessage(Engine(wq), msg, now))
    /\ last' = [op |-> "message", msg |-> msg, id |-> 0, at |-> now]
    /\ UNCHANGED now

TimerFire(tm, wq) ==
    /\ tm \in timeouts
    /\ now >= tm.due
    /\ Commit(StopTimerFired(Engine(wq), tm, now))
    /\ last' = [op |-> "timer", msg |-> NoMsg, id |-> tm.id, at |-> now]
    /\ UNCHANGED now

TimerDue == \E tm \in timeouts : now >= tm.due

Tick(d, horizon) ==
    /\ ~TimerDue
    /\ now + d <= StartTime + horizon
    /\ now' = now + d
    /\ effects' = <<>>
    /\ emitted' = <<>>
    /\ last' = [op |-> "tick", msg |-> NoMsg, id |-> 0, at |-> now']
    /\ UNCHANGED <<machines, stopTimers, timeouts, stats, disk, client, debug>>

ReceiveWasher ==
    \E msg \in WasherMessages : \E wq \in OutcomesFor(msg) :
        Message(msg, wq) /\ UNCHANGED scenario
ReceiveDryer ==
    \E msg \in DryerMessages : \E wq \in OutcomesFor(msg) :
        Message(msg, wq) /\ UNCHANGED scenario
Expire ==
    \E tm \in timeouts, wq \in WriteOutcomes(1) :
        /\ TimerFire(tm, wq)
        /\ scenario' = IF scenario.id = 0 THEN scenario
                       ELSE [scenario EXCEPT !.log = @ \o Stamp(Events(effects'), now)]
Advance == \E d \in TickSteps : Tick(d, MaxTicks * TickMs) /\ UNCHANGED scenario
AdvanceDryer == \E d \in TickSteps : Tick(d, MaxDryerTicks * TickMs) /\ UNCHANGED scenario

NextWasher == ReceiveWasher \/ Expire \/ Advance
NextDryer == ReceiveDryer \/ Expire \/ AdvanceDryer

SpecWasher == Init /\ [][NextWasher]_vars
SpecDryer == Init /\ [][NextDryer]_vars

(***************************************************************************)
(* Queries.  The value a query returns is recorded as the one effect of    *)
(* the step, [kind |-> "return", id |-> 0, value |-> ...].                 *)
(***************************************************************************)
FormatDurationPadded(ms) ==
    IF ms <= 0 THEN "0m"
    ELSE LET h == ms \div HourMs
             m == (ms % HourMs) \div MinuteMs
         IN  ToString(h) \o "h " \o ToString(m) \o "m"

\* !ms holds of 0 and of null, undefined and NaN (the values below 0 here).
FormatDuration(ms) ==
    IF ms <= 0 THEN "0m"
    ELSE LET h == ms \div HourMs
             m == (ms % HourMs) \div MinuteMs
         IN  IF h > 0 THEN ToString(h) \o "h " \o ToString(m) \o "m"
             ELSE ToString(m) \o "m"

NameOf(channel) ==
    IF channel \in MachineIds THEN MachineNames[channel]
    ELSE "Channel " \o ToString(channel)

\* new Date(date) is the midnight (UTC) that begins the day.
DateMs(date) == date * DayMs

GetStatsUnfiltered(st, days, t) ==
    [k \in DOMAIN st |->
        [name |-> NameOf(k[2]), starts |-> st[k].starts, runtimeMs |-> st[k].runtimeMs,
         runtimeHuman |-> FormatDuration(st[k].runtimeMs)]]

GetStatsByDate(st, days, t) ==
    [k \in {x \in DOMAIN st : x[1] >= Today(t) - days} |->
        [name |-> NameOf(k[2]), starts |-> st[k].starts, runtimeMs |-> st[k].runtimeMs,
         runtimeHuman |-> FormatDuration(st[k].runtimeMs)]]

GetStats(st, days, t) ==
    LET cutoff == t - days * DayMs
    IN  [k \in {x \in DOMAIN st : DateMs(x[1]) >= cutoff} |->
            [name |-> NameOf(k[2]), starts |-> st[k].starts, runtimeMs |-> st[k].runtimeMs,
             runtimeHuman |-> FormatDuration(st[k].runtimeMs)]]

Return(value) == [kind |-> "return", id |-> 0, value |-> value]

Query(op, arg, value) ==
    /\ effects' = <<Return(value)>>
    /\ emitted' = <<>>
    /\ last' = [op |-> op, msg |-> NoMsg, id |-> arg, at |-> now]
    /\ UNCHANGED <<machines, stopTimers, timeouts, stats, disk, client, debug, now, scenario>>

MaxDaysBack == 3
MaxQueryTicks == 3
QueryHistory ==
    <<-3, 1>> :> [starts |-> 4, runtimeMs |-> 3 * HourMs]
    @@ <<-2, 1>> :> [starts |-> 3, runtimeMs |-> 8100000]
    @@ <<-1, 1>> :> [starts |-> 1, runtimeMs |-> 2700000]
    @@ <<-1, 9>> :> [starts |-> 1, runtimeMs |-> 59999]
    @@ <<0, 2>> :> [starts |-> 1, runtimeMs |-> 0]
QueryFiles == {MissingFile, File("json", Stringify(QueryHistory))}
QueryMessages == {Reading(1, 15, Undefined), Reading(1, 2, Undefined)}

InitQuery == (\E f \in QueryFiles : ConstructedOn(f)) /\ scenario = NoScenario

GetStatsCall == \E days \in 0 .. MaxDaysBack : Query("getStats", days, GetStats(stats, days, now))
ReceiveQuery ==
    \E msg \in QueryMessages : \E wq \in OutcomesFor(msg) :
        Message(msg, wq) /\ UNCHANGED scenario
AdvanceQuery == \E d \in TickSteps : Tick(d, MaxQueryTicks * TickMs) /\ UNCHANGED scenario

NextQuery == ReceiveQuery \/ Expire \/ AdvanceQuery \/ GetStatsCall

SpecQuery == InitQuery /\ [][NextQuery]_vars

(***************************************************************************)
(* The transport: connect() creates the client and registers the handlers  *)
(* of its events, which the client then raises at any time.                *)
(***************************************************************************)
MaxTransportTicks == 2
BrokerUrls == {Undefined, 1}
ErrorMessages == {1}

Transport(op, c, d) ==
    /\ client' = c
    /\ debug' = d
    /\ effects' = <<>>
    /\ emitted' = <<>>
    /\ last' = [op |-> op, msg |-> NoMsg, id |-> 0, at |-> now]
    /\ UNCHANGED <<machines, stopTimers, timeouts, stats, disk, now, scenario>>

\* connect(brokerUrl, options); mqtt.connect either returns the client or throws.
ConnectCall ==
    \E brokerUrl \in BrokerUrls, created \in BOOLEAN :
        IF ~Truthy(brokerUrl) THEN Transport("connect()", client, debug)
        ELSE Transport("connect()",
                       IF created THEN "disconnected" ELSE client,
                       [debug EXCEPT !.brokerUrl = brokerUrl])

OnConnect ==
    /\ client # "none"
    /\ Transport("connect", "connected",
                 [debug EXCEPT !.isConnected = TRUE, !.connectedAt = now])

OnError ==
    /\ client # "none"
    /\ \E message \in ErrorMessages :
          Transport("error", client,
                    [debug EXCEPT !.isConnected = FALSE, !.lastError = message,
                                  !.lastErrorAt = now])

\* An 'offline' handler that only logs.
OnOfflineLogOnly ==
    /\ client # "none"
    /\ Transport("offline", "disconnected", debug)

OnOffline ==
    /\ client # "none"
    /\ Transport("offline", "disconnected", [debug EXCEPT !.isConnected = FALSE])

OnReconnect ==
    /\ client # "none"
    /\ Transport("reconnect", client, debug)

ClientState == IF client = "none" THEN "not initialized" ELSE client
GetMachinesCall == Query("getMachines", 0, machines)
GetDebugStatusCall ==
    Query("getDebugStatus", 0,
          [isConnected |-> debug.isConnected, connectedAt |-> debug.connectedAt,
           lastError |-> debug.lastError, lastErrorAt |-> debug.lastErrorAt,
           brokerUrl |-> debug.brokerUrl, clientState |-> ClientState])

\* The 'message' handler is registered on the client connect() created.
ReceiveTransport ==
    /\ client # "none"
    /\ \E msg \in QueryMessages : \E wq \in OutcomesFor(msg) :
          Message(msg, wq) /\ UNCHANGED scenario
AdvanceTransport ==
    \E d \in TickSteps : Tick(d, MaxTransportTicks * TickMs) /\ UNCHANGED scenario

NextTransport ==
    \/ ReceiveTransport \/ Expire \/ AdvanceTransport
    \/ ConnectCall \/ OnConnect \/ OnError \/ OnOffline \/ OnReconnect
    \/ GetMachinesCall \/ GetDebugStatusCall \/ GetStatsCall

SpecTransport == Init /\ [][NextTransport]_vars

(***************************************************************************)
(* Restarts: the process may end between two handlers; the next one is     *)
(* constructed on the stats file as it is then, with no timer pending.     *)
(***************************************************************************)
MaxRestartTicks == 3
MaxLedgerStarts == 3
History == [k \in {<<Today(StartTime), 1>>} |-> [starts |-> 2, runtimeMs |-> 2 * 3600000 + 5 * 60000]]
InitialFiles ==
    {MissingFile, EmptyFile, File("partial", <<>>), File("json", Stringify(History))}
RestartMessages == {Reading(1, 15, Undefined), Reading(1, 2, Undefined)}

InitRestart == (\E f \in InitialFiles : ConstructedOn(f)) /\ scenario = NoScenario

RECURSIVE LedgerStarts(_)
LedgerStarts(st) ==
    IF DOMAIN st = {} THEN 0
    ELSE LET k == CHOOSE x \in DOMAIN st : TRUE
         IN  st[k].starts + LedgerStarts([y \in DOMAIN st \ {k} |-> st[y]])

Restart ==
    /\ LedgerStarts(stats) <= MaxLedgerStarts
    /\ machines' = [id \in MachineIds |-> NewMachine]
    /\ stopTimers' = [id \in MachineIds |-> NoTimer]
    /\ timeouts' = {}
    /\ stats' = LoadStats(disk)
    /\ client' = "none"
    /\ debug' = NewDebug
    /\ effects' = <<>>
    /\ emitted' = <<>>
    /\ last' = [op |-> "restart", msg |-> NoMsg, id |-> 0, at |-> now]
    /\ UNCHANGED <<disk, now, scenario>>

ReceiveRestart ==
    \E msg \in RestartMessages : \E wq \in OutcomesFor(msg) :
        Message(msg, wq) /\ UNCHANGED scenario
AdvanceRestart == \E d \in TickSteps : Tick(d, MaxRestartTicks * TickMs) /\ UNCHANGED scenario

NextRestart == ReceiveRestart \/ Expire \/ AdvanceRestart \/ Restart

SpecRestart == InitRestart /\ [][NextRestart]_vars

(***************************************************************************)
(* The scripted scenarios: the readings of the chosen scenario are         *)
(* delivered in order, each inside its window; time moves in steps of      *)
(* ScenarioStepMs and never past the window of the next reading.           *)
(***************************************************************************)
InitScenario == Constructed /\ scenario \in {[id |-> i, pos |-> 1, log |-> <<>>] : i \in {1, 2}}

Script == Scenarios[scenario.id]
Elapsed == now - StartTime
Pending == scenario.pos <= Len(Script)

Deliver ==
    /\ Pending
    /\ Script[scenario.pos].from <= Elapsed
    /\ \E wq \in OutcomesFor(Script[scenario.pos].msg) : Message(Script[scenario.pos].msg, wq)
    /\ scenario' = [scenario EXCEPT !.pos = @ + 1,
                                    !.log = @ \o Stamp(Events(effects'), now)]

AdvanceScenario ==
    /\ Pending => Elapsed + ScenarioStepMs <= Script[scenario.pos].to
    /\ Tick(ScenarioStepMs, ScenarioEnd(Script))
    /\ UNCHANGED scenario

NextScenario == Deliver \/ Expire \/ AdvanceScenario

SpecScenario == InitScenario /\ [][NextScenario]_vars

(***************************************************************************)
(* Messages of every shape, with several entries, with entries that carry  *)
(* no power and with null entries.                                         *)
(***************************************************************************)
MaxShapeTicks == 2
NullEntry ==
    [channel |-> Undefined, power |-> Undefined, current |-> Undefined, malformed |-> TRUE]
NoPower(channel) == Entry(channel, Undefined, Undefined)
Notify(entries) == Msg("notify", entries, <<>>, <<>>)
Channels(entries) == Msg("channels", entries, <<>>, <<>>)
Energy(entries) == Msg("energy", entries, <<>>, <<>>)
Item(power) == Entry(Undefined, power, Undefined)

ShapeMessages ==
    {Reading(1, 15, Undefined), Flat(6, 15),
     Notify(<<NoPower(1), Entry(2, 15, Undefined)>>),
     Channels(<<NoPower(1), Entry(2, 15, Undefined)>>),
     Energy(<<Item(Undefined), Item(15)>>),
     Notify(<<NullEntry, Entry(2, 15, Undefined)>>),
     Notify(<<Entry(2, 15, Undefined), NullEntry>>),
     Channels(<<NullEntry, Entry(2, 15, Undefined)>>)}

ReceiveShape ==
    \E msg \in ShapeMessages : \E wq \in OutcomesFor(msg) :
        Message(msg, wq) /\ UNCHANGED scenario
AdvanceShape == \E d \in TickSteps : Tick(d, MaxShapeTicks * TickMs) /\ UNCHANGED scenario

NextShape == ReceiveShape \/ Expire \/ AdvanceShape

SpecShape == Init /\ [][NextShape]_vars

(***************************************************************************)
(* The history of a free run: every event ever emitted, stamped with its   *)
(* time, as a listener registered at construction would have logged them.  *)
(***************************************************************************)
MaxHistoryTicks == 4
HistoryMessages ==
    {Reading(5, 120, 35), Reading(5, 120, 20), Reading(5, 40, Undefined)}

\* The log of a free run bears the number after those of the scripted scenarios.
InitHistory == Constructed /\ scenario = [id |-> Len(Scenarios) + 1, pos |-> 0, log |-> <<>>]

ReceiveHistory ==
    \E msg \in HistoryMessages : \E wq \in OutcomesFor(msg) :
        /\ Message(msg, wq)
        /\ scenario' = [scenario EXCEPT !.log = @ \o Stamp(Events(effects'), now)]
AdvanceHistory ==
    \E d \in TickSteps : Tick(d, MaxHistoryTicks * TickMs) /\ UNCHANGED scenario

NextHistory == ReceiveHistory \/ Expire \/ AdvanceHistory

SpecHistory == InitHistory /\ [][NextHistory]_vars


(***************************************************************************)
(* Vocabulary of the properties                                            *)
(***************************************************************************)
Washers == 1 .. 4
Dryers == 5 .. 8

\* The single reading (channel, power, current) of a message, as the normaliser
\* hands it to the state machine.
IsSingleReading(msg) ==
    \/ msg.shape = "flat"
    \/ msg.shape \in {"notify", "channels"} /\ Len(msg.entries) = 1
ReadingOf(msg) ==
    IF msg.shape = "flat"
    THEN Entry(OrAll(msg.channel), OrAll(msg.power), Undefined)
    ELSE msg.entries[1]

\* The step just taken ran a handler (time stands still while one runs).
MessageStep == now' = now /\ last'.op = "message"
TimerStep(id) == now' = now /\ last'.op = "timer" /\ last'.id = id
\* The step just taken ingested one reading for channel ch.
ReadingStep(ch) ==
    MessageStep /\ IsSingleReading(last'.msg) /\ ReadingOf(last'.msg).channel = ch
NotifyStep(ch) == ReadingStep(ch) /\ last'.msg.shape = "notify"
StepPower == ReadingOf(last'.msg).power
StepCurrent == ReadingOf(last'.msg).current

LastReading(ch) ==
    last.op = "message" /\ IsSingleReading(last.msg) /\ ReadingOf(last.msg).channel = ch
LastPower == ReadingOf(last.msg).power
LastCurrent == ReadingOf(last.msg).current

StartsOf(st, date, id) == IF <<date, id>> \in DOMAIN st THEN st[<<date, id>>].starts ELSE 0
RuntimeOf(st, date, id) == IF <<date, id>> \in DOMAIN st THEN st[<<date, id>>].runtimeMs ELSE 0
Started(id) == Effect("machineStarted", id)
Stopped(id) == Effect("machineStopped", id)
Has(effs, e) == \E i \in 1 .. Len(effs) : effs[i] = e
EventsOf(effs, id) == SelectSeq(effs, LAMBDA e : IsEvent(e) /\ e.id = id)

Idle(id) == ~machines[id].isRunning
Running(id) == machines[id].isRunning /\ ~stopTimers[id].live
PendingStop(id) == machines[id].isRunning /\ stopTimers[id].live

(***************************************************************************)
(* Properties of the channel state machine (washer channels)               *)
(***************************************************************************)

Days == {Today(StartTime), Today(StartTime) + 1}
RECURSIVE SumOver(_, _, _)
SumOver(st, id, days) ==
    IF days = {} THEN [starts |-> 0, runtimeMs |-> 0]
    ELSE LET d == CHOOSE x \in days : TRUE
             rest == SumOver(st, id, days \ {d})
         IN  [starts |-> rest.starts + StartsOf(st, d, id),
              runtimeMs |-> rest.runtimeMs + RuntimeOf(st, d, id)]
TotalStarts(id) == SumOver(stats, id, Days).starts
TotalRuntime(id) == SumOver(stats, id, Days).runtimeMs

InWasherScenario == scenario.id = 1
WasherScenarioDone == InWasherScenario /\ ~Pending /\ Idle(1)
\* Up to and including the final 2 W reading there is at most the one start.
WasherScenarioPrefix ==
    /\ scenario.pos <= 2 => scenario.log = <<>>
    /\ scenario.pos > 2 =>
          /\ Len(scenario.log) >= 1
          /\ scenario.log[1].kind = "machineStarted" /\ scenario.log[1].id = 1
          /\ scenario.log[1].at - StartTime \in {0, 15 * 1000}
          /\ TotalStarts(1) = 1
    /\ Len(scenario.log) <= 2
    /\ Len(scenario.log) = 2 =>
          /\ scenario.log[2].kind = "machineStopped" /\ scenario.log[2].id = 1
          /\ ~Pending
          /\ TotalRuntime(1) = scenario.log[2].at - scenario.log[1].at
    /\ Len(scenario.log) < 2 => TotalRuntime(1) = 0

\* C4, with the debounce of three minutes it names: the one machineStopped of
\* the washer scenario comes three minutes after the final 2 W reading.
C4_Original ==
    InWasherScenario =>
        /\ WasherScenarioPrefix
        /\ Len(scenario.log) = 2 =>
              scenario.log[2].at = StartTime + 300 * 1000 + 3 * 60 * 1000

\* C4 (amended): in the washer scenario (0 W at t, 15 W, 2 W at t+30 s, 20 W at
\* t+45 s, 2 W at t+5 min) there is exactly one machineStarted, at the 15 W
\* reading, no machineStopped before the final 2 W reading, and exactly one
\* machineStopped, 60 s after the final 2 W reading, with recorded runtime equal
\* to that expiry time minus the time of the 15 W reading.
C4_WasherScenario ==
    InWasherScenario =>
        /\ WasherScenarioPrefix
        /\ Len(scenario.log) = 2 =>
              scenario.log[2].at = StartTime + 300 * 1000 + 60 * 1000
        /\ Elapsed > 300 * 1000 + 60 * 1000 => WasherScenarioDone /\ Len(scenario.log) = 2

C4_Witness ==
    /\ WasherScenarioDone
    /\ Len(scenario.log) = 2
    /\ last.op = "timer"
    /\ TotalRuntime(1) >= 345 * 1000

(***************************************************************************)
(* Properties of the dryer-pair disambiguator                              *)
(***************************************************************************)
PairChannels == DOMAIN DRYER_CHANNEL_MAP
First(ch) == DRYER_CHANNEL_MAP[ch][1]
Second(ch) == DRYER_CHANNEL_MAP[ch][2]
Units(ch) == {First(ch), Second(ch)}
DualCurrent(c) == c # Undefined /\ c >= DRYER_DUAL_CURRENT_THRESHOLD

C6_DryerScenario ==
    scenario.id = 2 =>
        /\ scenario.pos = 1 => scenario.log = <<>> /\ Idle(5) /\ Idle(6)
        /\ scenario.pos >= 2 =>
              /\ Len(scenario.log) >= 1
              /\ scenario.log[1] = [kind |-> "machineStarted", id |-> 5,
                                    at |-> machines[5].startedAt]
              /\ scenario.log[1].at - StartTime \in {0, 15 * 1000}
              /\ Running(5)
        /\ scenario.pos = 2 => Len(scenario.log) = 1 /\ Idle(6)
        /\ scenario.pos = 3 =>
              /\ Len(scenario.log) = 2
              /\ scenario.log[2] = [kind |-> "machineStarted", id |-> 6,
                                    at |-> machines[6].startedAt]
              /\ scenario.log[2].at >= scenario.log[1].at
              /\ scenario.log[2].at - StartTime \in 15 * 1000 .. 90 * 1000
              /\ Running(6)

C6_Witness ==
    /\ scenario.id = 2 /\ scenario.pos = 3
    /\ LastReading(5) /\ LastPower = 240 /\ LastCurrent = 40
    /\ Running(5) /\ Running(6)
    /\ machines[6].startedAt = now /\ machines[5].startedAt < now

\* C7: an Idle dryer (ids 5-8) is never moved to Running by a reading whose
\* power is at or below the dryer start threshold of 100 W, whichever payload
\* shape delivered it.
C7_DryerThreshold ==
    [][\A id \in Dryers :
        MessageStep /\ IsSingleReading(last'.msg) /\ Idle(id)
          /\ ~Gt(StepPower, DRYER_START_POWER) => Idle(id)']_vars

InBand(p, lo, hi) == IsNumber(p) /\ lo <= p /\ p <= hi

\* C8: a reading with power between the stop and start thresholds inclusive
\* leaves a Running machine with no timer armed as it is, for washers and for
\* both units of a dryer pair.
C8_Hysteresis ==
    [][/\ \A id \in Washers :
            ReadingStep(id) /\ Running(id)
              /\ InBand(StepPower, WASHER_STOP_POWER, WASHER_START_POWER) => Running(id)'
       /\ \A ch \in PairChannels : \A id \in Units(ch) :
            NotifyStep(ch) /\ Running(id)
              /\ InBand(StepPower, DRYER_STOP_POWER, DRYER_START_POWER) => Running(id)']_vars

TimeoutsOf(id) == {tm \in timeouts : tm.id = id}

\* C10: in every reachable state the runtime holds at most one live stop timer
\* per machine, the one stopTimers refers to; a machine without a handle has none.
C10_OneTimer ==
    \A id \in MachineIds :
        /\ Cardinality(TimeoutsOf(id)) <= 1
        /\ stopTimers[id].live => TimeoutsOf(id) = {Timeout(id, stopTimers[id].due, stopTimers[id].startedAt)}
        /\ ~stopTimers[id].live => TimeoutsOf(id) = {}

C10_Witness ==
    /\ Cardinality(timeouts) = 2
    /\ stopTimers[5].live /\ stopTimers[6].live
    /\ stopTimers[5].due # stopTimers[6].due
    /\ LastReading(5) /\ Lt(LastPower, DRYER_STOP_POWER) /\ effects = <<>>

(***************************************************************************)
(* Cancellation of superseded timers                                       *)
(***************************************************************************)

C12_Routing ==
    [][\A ch \in PairChannels :
        ReadingStep(ch) =>
            LET routed == UpdateDryerPair(Engine(<<>>), ch, StepPower, StepCurrent, now)
            IN  /\ machines' = routed.machines
                /\ stopTimers' = routed.stopTimers
                /\ Events(effects') = Events(routed.effects)]_vars

\* The value a flat payload carries for a field: that of the one spelling present.
Spelled(vals) == {i \in DOMAIN vals : vals[i] # Undefined}
Carried(vals) == vals[CHOOSE i \in Spelled(vals) : TRUE]
FlatStep(c, p) ==
    /\ MessageStep /\ last'.msg.shape = "flat"
    /\ Cardinality(Spelled(last'.msg.channel)) = 1 /\ Carried(last'.msg.channel) = c
    /\ Cardinality(Spelled(last'.msg.power)) = 1 /\ Carried(last'.msg.power) = p

\* C13: a flat payload carrying channel c and a numeric power p >= 0, 0 W
\* included, is applied to the state machine as the one reading (c, p); a flat
\* reading of 0 W for a Running washer arms its stop timer.
C13_FlatReading ==
    [][\A c \in Washers, p \in {0} \cup WasherPowers :
        FlatStep(c, p) =>
            LET applied == UpdateMachineStatus(Engine(<<>>), c, p, now)
            IN  /\ machines' = applied.machines
                /\ stopTimers' = applied.stopTimers
                /\ Events(effects') = Events(applied.effects)
                /\ p = 0 /\ Running(c) => PendingStop(c)']_vars

Unrecognised == {"garbage", "other", "null"}

\* C14: a message whose payload is not valid JSON, or is valid JSON of none of
\* the four recognised shapes, raises no error out of the message handler,
\* leaves every machine record, stop timer and stats bucket (and the stats
\* file) unchanged and emits no event.
C14_Dropped ==
    [][MessageStep /\ last'.msg.shape \in Unrecognised =>
          /\ ~OnMessage(Engine(<<>>), last'.msg, now).thrown
          /\ machines' = machines /\ stopTimers' = stopTimers /\ timeouts' = timeouts
          /\ stats' = stats /\ disk' = disk
          /\ effects' = <<>>]_vars

C14_Witness ==
    /\ last.op = "message" /\ last.msg.shape \in {"garbage", "null"}
    /\ effects = <<>>
    /\ PendingStop(1) /\ StartsOf(stats, Today(machines[1].startedAt), 1) = 1

UnknownChannels == {9}

\* C15: a reading whose channel number maps to no configured machine changes
\* no machine record, no stop timer and no stats bucket, emits no event and
\* raises no error.
C15_UnknownChannel ==
    [][\A ch \in UnknownChannels :
        ReadingStep(ch) =>
          /\ ~OnMessageUncaught(Engine(<<>>), last'.msg, now).thrown
          /\ machines' = machines /\ stopTimers' = stopTimers /\ timeouts' = timeouts
          /\ stats' = stats /\ disk' = disk
          /\ effects' = <<>>]_vars

C15_Witness ==
    /\ LastReading(9) /\ Gt(LastPower, WASHER_START_POWER)
    /\ effects = <<>>
    /\ Running(1) /\ machines[1].power < WASHER_START_POWER

(***************************************************************************)
(* Properties of the stats ledger and its file                             *)
(***************************************************************************)
IsWrite(e) == e.kind \in {"saved", "saveFailed"}
Writes(effs) == SelectSeq(effs, IsWrite)
LastWriteSaved(effs) == Writes(effs) # <<>> /\ Writes(effs)[Len(Writes(effs))].kind = "saved"
HandlerStep == now' = now /\ last'.op \in {"message", "timer"}

\* C16: write-through.  A handler that mutates the ledger attempts a write after
\* each mutation and changes the ledger in no other way; when the last attempt
\* of the handler succeeded, the stats file equals the whole in-memory ledger
\* once the handler returns, whatever earlier attempts had failed.
C16_WriteThrough ==
    [][HandlerStep =>
          /\ Writes(effects') = <<>> => stats' = stats /\ disk' = disk
          /\ Writes(effects') # <<>> => stats' # stats
          /\ LastWriteSaved(effects') => disk' = File("json", Stringify(stats'))]_vars

C16_Witness ==
    /\ LastReading(5)
    /\ effects = <<Effect("saveFailed", 0), Started(5), Effect("saved", 0), Started(6)>>
    /\ disk = File("json", Stringify(stats))
    /\ Len(disk.text) = 2 /\ disk.text[1].channel = 5 /\ disk.text[2].channel = 6

RestartStep == now' = now /\ last'.op = "restart"
Persisted(file) == LoadStats(file)

\* C17: across a restart at any point the ledger loaded at startup is the
\* content of the stats file, which round-trips exactly; a missing or empty
\* file loads as the empty ledger; and no bucket the file has held is ever
\* absent from it later or held with lower starts or runtimeMs, so every bucket
\* persisted before a restart is present after it with values not lower.
C17_Restart ==
    [][/\ RestartStep =>
             /\ stats' = Persisted(disk) /\ disk' = disk
             /\ disk.kind \in {"missing", "empty"} => stats' = EmptyStats
       /\ Parse(Stringify(stats')) = stats'
       /\ \A k \in DOMAIN Persisted(disk) :
             /\ k \in DOMAIN Persisted(disk')
             /\ Persisted(disk')[k].starts >= Persisted(disk)[k].starts
             /\ Persisted(disk')[k].runtimeMs >= Persisted(disk)[k].runtimeMs]_vars

WriteFailed(effs) == Has(effs, Effect("saveFailed", 0))
\* Everything but the file is as engine state s has it.
SameButFile(s) ==
    /\ machines' = s.machines /\ stopTimers' = s.stopTimers /\ timeouts' = s.timeouts
    /\ stats' = s.stats /\ Events(effects') = Events(s.effects)

\* C18: when the write of a start or of a stop fails, the counter change stays
\* in memory, the transition completes and its event is emitted; and whatever
\* the outcomes of the writes, a handler leaves everything but the file exactly
\* as it would with every write succeeding, so later readings and expiries are
\* processed as usual.
C18_WriteFailure ==
    [][/\ MessageStep => SameButFile(OnMessage(Engine(<<>>), last'.msg, now))
       /\ \A id \in Washers :
            /\ TimerStep(id) =>
                  \E tm \in TimeoutsOf(id) : SameButFile(StopTimerFired(Engine(<<>>), tm, now))
            /\ ReadingStep(id) /\ WriteFailed(effects') =>
                  /\ Idle(id) /\ machines'[id].isRunning
                  /\ Events(effects') = <<Started(id)>>
                  /\ StartsOf(stats', Today(now), id) = StartsOf(stats, Today(now), id) + 1
            /\ TimerStep(id) /\ WriteFailed(effects') =>
                  /\ Idle(id)'
                  /\ Events(effects') = <<Stopped(id)>>
                  /\ RuntimeOf(stats', Today(now), id) =
                        RuntimeOf(stats, Today(now), id) + (now - machines[id].startedAt)]_vars

C18_Witness ==
    /\ last.op = "timer" /\ last.id = 1
    /\ effects = <<Effect("saveFailed", 0), Stopped(1)>>
    /\ Idle(1)
    /\ disk = MissingFile
    /\ TotalStarts(1) = 1 /\ TotalRuntime(1) >= STOP_DELAY_MS

\* C19: for every (date, channel) bucket, starts and runtimeMs never decrease
\* over readings and timer expiries; runtimeMs changes only when the stop timer
\* of that channel fires, in the bucket of the day of the expiry, by exactly the
\* fire time minus the recorded start of the run being stopped.
C19_Monotone ==
    [][/\ DOMAIN stats' \subseteq Days \X MachineIds
       /\ \A d \in Days, id \in MachineIds :
            /\ StartsOf(stats', d, id) >= StartsOf(stats, d, id)
            /\ RuntimeOf(stats', d, id) >= RuntimeOf(stats, d, id)
            /\ RuntimeOf(stats', d, id) # RuntimeOf(stats, d, id) =>
                  TimerStep(id) /\ d = Today(now)
            /\ TimerStep(id) /\ d = Today(now) =>
                  /\ machines[id].startedAt = machines[id].lastStartedAt
                  /\ now - machines[id].startedAt >= STOP_DELAY_MS
                  /\ RuntimeOf(stats', d, id) =
                        RuntimeOf(stats, d, id) + (now - machines[id].startedAt)]_vars

C19_Witness ==
    /\ last.op = "timer" /\ last.id = 6
    /\ Idle(5) /\ Idle(6)
    /\ TotalRuntime(6) >= STOP_DELAY_MS
    /\ TotalRuntime(5) > TotalRuntime(6)

Created == DOMAIN stats' \ DOMAIN stats

\* C20: a (date, channel) bucket is created only by a start or a debounced stop
\* of that channel on that date, a handler that emits no event creating none;
\* it starts from starts = 0 and runtimeMs = 0, so that it holds exactly the
\* triggering update afterwards; and a bucket once created is never removed.
C20_Buckets ==
    [][/\ DOMAIN stats \subseteq DOMAIN stats'
       /\ HandlerStep /\ Events(effects') = <<>> => Created = {}
       /\ \A k \in Created :
            /\ k[1] = Today(now)
            /\ \/ /\ MessageStep /\ Has(effects', Started(k[2]))
                  /\ stats'[k] = [starts |-> 1, runtimeMs |-> 0]
               \/ /\ TimerStep(k[2]) /\ Has(effects', Stopped(k[2]))
                  /\ stats'[k] = [starts |-> 0, runtimeMs |-> now - machines[k[2]].startedAt]]_vars

C20_Witness ==
    /\ last.op = "timer" /\ last.id = 6
    /\ Today(now) = Today(StartTime) + 1
    /\ <<Today(now), 6>> \in DOMAIN stats /\ stats[<<Today(now), 6>>].starts = 0
    /\ stats[<<Today(now), 6>>].runtimeMs >= STOP_DELAY_MS
    /\ StartsOf(stats, Today(StartTime), 6) = 1 /\ StartsOf(stats, Today(StartTime), 5) = 1

(***************************************************************************)
(* Properties of the queries                                               *)
(***************************************************************************)
Returned == effects[1].value
GetStatsReturned == last.op = "getStats" /\ Len(effects) = 1 /\ effects[1].kind = "return"
DaysBack == last.id
Age(date) == Today(now) - date

\* C21: for every daysBack >= 0 and every ledger content, getStats(daysBack)
\* returns no bucket whose date is more than daysBack days before the current
\* date.
C21_Window ==
    last.op = "getStats" =>
        /\ GetStatsReturned
        /\ \A k \in DOMAIN Returned : Age(k[1]) <= DaysBack

C21_Witness ==
    /\ GetStatsReturned /\ DaysBack = 2
    /\ \E k \in DOMAIN stats : Age(k[1]) > DaysBack
    /\ \E k \in DOMAIN Returned : Age(k[1]) = 1

\* C22 as stated: getStats(daysBack) returns every stored bucket whose date is
\* no more than daysBack days before the current date, today's included.
C22_Original ==
    GetStatsReturned =>
        \A k \in DOMAIN stats : Age(k[1]) <= DaysBack => k \in DOMAIN Returned

\* The buckets whose day begins at or after the instant daysBack days ago.
InWindow(date) ==
    \/ Age(date) < DaysBack
    \/ Age(date) = DaysBack /\ now % DayMs = 0

\* C22 (amended): getStats(daysBack) returns exactly the stored buckets whose
\* date begins at or after the instant daysBack days (of 24 h) before now, that
\* is the dates less than daysBack days before the current date, and the date
\* daysBack days before it only at midnight exactly; each with the stored
\* starts and runtimeMs and with the display name of the mapped machine, or
\* "Channel <n>" for a channel that maps to none.
C22_Returned ==
    GetStatsReturned =>
        /\ DOMAIN Returned = {k \in DOMAIN stats : InWindow(k[1])}
        /\ \A k \in DOMAIN Returned :
              /\ Returned[k].starts = stats[k].starts
              /\ Returned[k].runtimeMs = stats[k].runtimeMs
              /\ k[2] \in MachineIds => Returned[k].name = MachineNames[k[2]]
              /\ k[2] = 9 => Returned[k].name = "Channel 9"

C22_Witness ==
    /\ GetStatsReturned /\ DaysBack = 2 /\ now % DayMs # 0
    /\ <<Today(now), 1>> \in DOMAIN Returned
    /\ Returned[<<Today(now), 1>>].name = "Pralnik 10kg #1"
    /\ Returned[<<Today(now), 1>>].starts = 1
    /\ <<Today(now) - 1, 9>> \in DOMAIN Returned
    /\ <<Today(now) - 2, 1>> \in DOMAIN stats /\ <<Today(now) - 2, 1>> \notin DOMAIN Returned

\* The hours, whole minutes and rest that make up a duration.
Splits(ms) ==
    {hm \in (0 .. ms \div HourMs) \X (0 .. 59) :
        /\ hm[1] * HourMs + hm[2] * MinuteMs <= ms
        /\ ms < hm[1] * HourMs + (hm[2] + 1) * MinuteMs}
Human(hm) ==
    IF hm[1] = 0 THEN ToString(hm[2]) \o "m"
    ELSE ToString(hm[1]) \o "h " \o ToString(hm[2]) \o "m"

\* C23: runtimeHuman of every returned entry is "0m" for 0 ms, "<m>m" with
\* m = floor(ms / 60000) under one hour and "<h>h <m>m" with
\* h = floor(ms / 3600000), m = floor((ms mod 3600000) / 60000) otherwise;
\* 8100000 ms gives "2h 15m" and 2700000 ms gives "45m".
C23_RuntimeHuman ==
    GetStatsReturned =>
        \A k \in DOMAIN Returned :
            LET ms == Returned[k].runtimeMs
                human == Returned[k].runtimeHuman
            IN  /\ ms >= 0
                /\ Cardinality(Splits(ms)) = 1
                /\ \A hm \in Splits(ms) : human = Human(hm)
                /\ ms = 0 => human = "0m"
                /\ ms = 59999 => human = "0m"
                /\ ms = 2700000 => human = "45m"
                /\ ms = 8100000 => human = "2h 15m"
                /\ ms = 3 * HourMs => human = "3h 0m"

C23_Witness ==
    /\ GetStatsReturned /\ DaysBack = 3
    /\ {<<-2, 1>>, <<-1, 1>>, <<-1, 9>>, <<0, 2>>} \subseteq DOMAIN Returned
    /\ Returned[<<-2, 1>>].runtimeHuman = "2h 15m"
    /\ Returned[<<-1, 1>>].runtimeHuman = "45m"
    /\ Returned[<<-1, 9>>].runtimeHuman = "0m"
    /\ Returned[<<0, 2>>].runtimeHuman = "0m"
    /\ <<0, 1>> \in DOMAIN Returned /\ Returned[<<0, 1>>].runtimeHuman = "1m"

(***************************************************************************)
(* Properties of the events                                                *)
(***************************************************************************)

\* C24: the machine record delivered with machineStarted has isRunning = true
\* and startedAt = lastStartedAt = the time of the triggering reading; the one
\* delivered with machineStopped has isRunning = false, startedAt = null and
\* lastStartedAt still the start time of the run that just ended.  One record is
\* delivered per event, in the order of the events.
C24_Payload ==
    [][/\ Len(emitted') = Len(Events(effects'))
       /\ \A i \in 1 .. Len(emitted') :
            LET e == emitted'[i]
            IN  /\ Effect(e.kind, e.id) = Events(effects')[i]
                /\ e.kind = "machineStarted" =>
                      /\ MessageStep
                      /\ e.machine.isRunning
                      /\ e.machine.startedAt = now /\ e.machine.lastStartedAt = now
                /\ e.kind = "machineStopped" =>
                      /\ TimerStep(e.id)
                      /\ ~e.machine.isRunning
                      /\ e.machine.startedAt = Null
                      /\ e.machine.lastStartedAt = machines[e.id].startedAt
                      /\ e.machine.lastStartedAt # Null /\ e.machine.lastStartedAt < now]_vars

C24_Witness ==
    /\ last.op = "timer" /\ last.id = 6
    /\ Len(emitted) = 1 /\ emitted[1].kind = "machineStopped" /\ emitted[1].id = 6
    /\ ~emitted[1].machine.isRunning /\ emitted[1].machine.startedAt = Null
    /\ emitted[1].machine.lastStartedAt > StartTime
    /\ machines[5].lastStartedAt = StartTime

\* C25: an 'offline' or 'error' event leaves isConnected false, and while it is
\* false no message, reading, timer expiry, query or other transport event sets
\* it: only a 'connect' event does.
C25_Disconnected ==
    [][/\ last'.op \in {"offline", "error"} => ~debug'.isConnected
       /\ ~debug.isConnected /\ debug'.isConnected => last'.op = "connect"
       /\ last'.op = "connect" => debug'.isConnected]_vars

\* The client connected, went offline, and a stop timer has expired since.
C25_Witness ==
    /\ debug.connectedAt # Null
    /\ ~debug.isConnected
    /\ last.op = "timer"
    /\ \E e \in 1 .. Len(effects) : effects[e].kind = "machineStopped"

TransportOps == {"connect()", "connect", "error", "offline", "reconnect"}
QueryOps == {"getMachines", "getStats", "getDebugStatus"}
Owned == <<machines, stopTimers, timeouts, stats>>

\* C26: the machine records, the stop timers and the stats buckets change only
\* in a 'message' handler or a stop-timer callback; connect() calls, transport
\* events and the queries getMachines, getStats and getDebugStatus leave them
\* and the stats file unchanged; and what a handler does to them is determined
\* by them, the reading and the time alone, whatever the diagnostics hold.
C26_Frame ==
    [][/\ last'.op \in TransportOps \cup QueryOps => UNCHANGED <<Owned, disk>>
       /\ Owned' # Owned => HandlerStep
       /\ last'.op = "message" => SameButFile(OnMessage(Engine(<<>>), last'.msg, now))
       /\ last'.op = "timer" =>
              \E tm \in timeouts :
                  tm.id = last'.id /\ SameButFile(StopTimerFired(Engine(<<>>), tm, now))
       /\ last'.op \in QueryOps \cup {"message", "timer", "tick"} => UNCHANGED <<client, debug>>]_vars

\* A reading started machine 1 after an 'error' event had cleared isConnected
\* on a client that was connected.
C26_Witness ==
    /\ client = "connected" /\ ~debug.isConnected /\ debug.lastError # Null
    /\ last.op = "message"
    /\ machines[1].isRunning /\ machines[1].startedAt = now
    /\ \E e \in 1 .. Len(effects) : effects[e] = Effect("machineStarted", 1)

\* C27: between handlers, a machine whose stop timer is armed (a handle in
\* stopTimers, a pending callback in the runtime) has isRunning = true, and an
\* Idle machine has neither a handle nor a pending callback.
C27_PendingStopRuns ==
    /\ \A id \in MachineIds : stopTimers[id].live => machines[id].isRunning
    /\ \A tm \in timeouts : machines[tm.id].isRunning
    /\ \A id \in MachineIds :
          ~machines[id].isRunning =>
              stopTimers[id] = NoTimer /\ ~\E tm \in timeouts : tm.id = id

\* Dryer 5 is in PendingStop; dryer 6 has run, was stopped by its timer and is
\* Idle with no timer.
C27_Witness ==
    /\ machines[5].isRunning /\ stopTimers[5].live
    /\ \E tm \in timeouts : tm.id = 5
    /\ ~machines[6].isRunning /\ machines[6].lastStartedAt # Null
    /\ stopTimers[6] = NoTimer

Armed(id) == stopTimers[id].live \/ \E tm \in timeouts : tm.id = id
ExpiredJust(id) == last.op = "timer" /\ last.id = id /\ last.at = now

NoStartNoCancel(id) ==
    /\ Idle(id) => Idle(id)' /\ ~Has(effects', Started(id))
    /\ Armed(id) =>
          /\ stopTimers'[id] = stopTimers[id]
          /\ {tm \in timeouts' : tm.id = id} = {tm \in timeouts : tm.id = id}
          /\ ~Has(effects', Effect("clearTimeout", id))

\* C29: a reading whose power equals the start threshold (10 W on a washer
\* channel, 100 W on a dryer-pair channel), whichever payload shape carried it,
\* neither starts an Idle machine of the channel nor cancels an armed stop timer.
C29_StrictStart ==
    [][/\ \A id \in Washers :
            ReadingStep(id) /\ StepPower = WASHER_START_POWER => NoStartNoCancel(id)
       /\ \A ch \in PairChannels :
            ReadingStep(ch) /\ StepPower = DRYER_START_POWER =>
                \A id \in Units(ch) : NoStartNoCancel(id)]_vars

SingleUnit(p, c) == Gt(p, DRYER_START_POWER) /\ ~DualCurrent(c)
SameUnit(id) ==
    /\ machines'[id].isRunning = machines[id].isRunning
    /\ machines'[id].startedAt = machines[id].startedAt
    /\ stopTimers'[id] = stopTimers[id]
    /\ TimeoutsOf(id)' = TimeoutsOf(id)
    /\ EventsOf(effects', id) = <<>>
    /\ \A d \in Days : /\ RuntimeOf(stats', d, id) = RuntimeOf(stats, d, id)
                       /\ StartsOf(stats', d, id) = StartsOf(stats, d, id)

C31_CountedBeforeEmit ==
    [][/\ \A i \in 1 .. Len(effects') :
            IsEvent(effects'[i]) => i > 1 /\ IsWrite(effects'[i - 1])
       /\ \A i \in 1 .. Len(emitted') :
            LET e == emitted'[i]
            IN  /\ e.kind = "machineStarted" =>
                      StartsOf(e.stats, Today(now), e.id) = StartsOf(stats, Today(now), e.id) + 1
                /\ e.kind = "machineStopped" =>
                      RuntimeOf(e.stats, Today(now), e.id) =
                          RuntimeOf(stats, Today(now), e.id) + (now - machines[e.id].startedAt)
                /\ StartsOf(e.stats, Today(now), e.id) = StartsOf(stats', Today(now), e.id)
                /\ RuntimeOf(e.stats, Today(now), e.id) = RuntimeOf(stats', Today(now), e.id)]_vars

\* One reading started both dryers: two writes, each followed by its event, and
\* the listener of the first event sees dryer 5 counted and dryer 6 not yet.
C31_Witness ==
    /\ LastReading(5)
    /\ Len(effects) = 4
    /\ IsWrite(effects[1]) /\ effects[2] = Started(5)
    /\ IsWrite(effects[3]) /\ effects[4] = Started(6)
    /\ StartsOf(emitted[1].stats, Today(now), 5) = 1
    /\ StartsOf(emitted[1].stats, Today(now), 6) = 0
    /\ StartsOf(emitted[2].stats, Today(now), 6) = 1

(***************************************************************************)
(* The countdown of an armed stop timer                                    *)
(***************************************************************************)

\* The countdown is fixed when the timer is armed and nothing but a reading
\* above the start threshold for the machine touches it: the timer is due one
\* debounce window after the reading that armed it, and every other message
\* (repeated readings below the stop threshold, readings inside the band,
\* anything else) leaves the timer, the callback and the machine as they are
\* and emits nothing for the machine.
Countdown(id) ==
    /\ ~stopTimers[id].live /\ stopTimers'[id].live =>
          ReadingStep(id) /\ stopTimers'[id].due = now + STOP_DELAY_MS
    /\ MessageStep /\ PendingStop(id)
         /\ ~(ReadingStep(id) /\ Gt(StepPower, WASHER_START_POWER)) =>
          /\ stopTimers'[id] = stopTimers[id]
          /\ TimeoutsOf(id)' = TimeoutsOf(id)
          /\ machines'[id].isRunning /\ machines'[id].startedAt = machines[id].startedAt
          /\ EventsOf(effects', id) = <<>>

LogOf(id) == SelectSeq(scenario.log, LAMBDA e : e.id = id)
CountOf(id, kind) == Len(SelectSeq(scenario.log, LAMBDA e : e.id = id /\ e.kind = kind))
Alternates(log) ==
    \A i \in 1 .. Len(log) :
        log[i].kind = IF i % 2 = 1 THEN "machineStarted" ELSE "machineStopped"

\* C33: the events emitted for a machine since construction alternate
\* machineStarted, machineStopped, ..., beginning with machineStarted, and the
\* number of machineStarted minus the number of machineStopped is 1 while
\* isRunning is true and 0 while it is false.
C33_Alternation ==
    \A id \in MachineIds :
        /\ Alternates(LogOf(id))
        /\ CountOf(id, "machineStarted") - CountOf(id, "machineStopped")
              = IF machines[id].isRunning THEN 1 ELSE 0

\* Dryer 6 has completed two runs while dryer 5 is in its first.
C33_Witness ==
    /\ Len(LogOf(6)) = 4 /\ Idle(6)
    /\ Len(LogOf(5)) = 1 /\ Running(5)

\* The total of (stop time - start time) over the completed runs of a log that
\* alternates machineStarted, machineStopped.
RECURSIVE RunsTotal(_)
RunsTotal(log) ==
    IF Len(log) < 2 THEN 0
    ELSE (log[2].at - log[1].at) + RunsTotal(SubSeq(log, 3, Len(log)))

\* C34: from an empty ledger, for every machine the starts summed over all
\* date buckets equal the number of machineStarted events emitted for it, and
\* the runtimeMs summed over all date buckets equals the total of stop time
\* minus start time over its completed runs; no bucket lies outside the dates
\* the run has seen.
C34_LedgerMatchesHistory ==
    /\ DOMAIN stats \subseteq Days \X MachineIds
    /\ \A id \in MachineIds :
          /\ TotalStarts(id) = CountOf(id, "machineStarted")
          /\ TotalRuntime(id) = RunsTotal(LogOf(id))

\* Dryer 6 has completed two runs, one stopped before midnight and one after:
\* its ledger holds two starts and both runtimes, in two date buckets.
C34_Witness ==
    /\ CountOf(6, "machineStopped") = 2
    /\ TotalStarts(6) = 2
    /\ RuntimeOf(stats, Today(StartTime), 6) > 0
    /\ RuntimeOf(stats, Today(StartTime) + 1, 6) > 0
    /\ TotalRuntime(6) = RunsTotal(LogOf(6))

(***************************************************************************)
(* Properties of the machine record                                        *)
(***************************************************************************)

\* C35: between handlers, for every machine, isRunning is true exactly when
\* startedAt is not null; while isRunning is true lastStartedAt equals
\* startedAt; and lastStartedAt, once set, is never null again and never
\* decreases.
C35_Record ==
    [][\A id \in MachineIds :
        /\ machines'[id].isRunning <=> machines'[id].startedAt # Null
        /\ machines'[id].isRunning => machines'[id].lastStartedAt = machines'[id].startedAt
        /\ machines[id].lastStartedAt # Null =>
              /\ machines'[id].lastStartedAt # Null
              /\ machines'[id].lastStartedAt >= machines[id].lastStartedAt]_vars

\* Dryer 6 runs for the second time: its lastStartedAt moved forward to the
\* new start after having survived the stop in between.
C35_Witness ==
    /\ machines[6].isRunning
    /\ machines[6].startedAt = machines[6].lastStartedAt
    /\ machines[6].startedAt > StartTime
    /\ TotalStarts(6) = 2 /\ TotalRuntime(6) > 0
    /\ ~machines[5].isRunning /\ machines[5].startedAt = Null
    /\ machines[5].lastStartedAt = StartTime

(***************************************************************************)
(* Dates of the ledger                                                     *)
(***************************************************************************)
StartsOn(id, d) ==
    Len(SelectSeq(LogOf(id), LAMBDA e : e.kind = "machineStarted" /\ Today(e.at) = d))
\* The total of the runs in an alternating log whose stop falls on date d.
RECURSIVE RunsStoppedOn(_, _)
RunsStoppedOn(log, d) ==
    IF Len(log) < 2 THEN 0
    ELSE (IF Today(log[2].at) = d THEN log[2].at - log[1].at ELSE 0)
            + RunsStoppedOn(SubSeq(log, 3, Len(log)), d)
StoppedOn(id, d) ==
    \E i \in 1 .. Len(LogOf(id)) :
        LogOf(id)[i].kind = "machineStopped" /\ Today(LogOf(id)[i].at) = d

\* C36: for every machine and date, the bucket's starts are the runs that
\* started on that date and its runtimeMs is the total of the whole runtimes
\* (stop time minus start time, unsplit) of the runs whose stop timer fired on
\* that date; a bucket with runtimeMs > 0 has a run that stopped on its date.
C36_Dates ==
    \A id \in MachineIds, d \in Days :
        /\ StartsOf(stats, d, id) = StartsOn(id, d)
        /\ RuntimeOf(stats, d, id) = RunsStoppedOn(LogOf(id), d)
        /\ RuntimeOf(stats, d, id) > 0 => StoppedOn(id, d)

\* Dryer 6 started before midnight and was stopped after it: the start is in
\* the bucket of the first date, the whole runtime in the bucket of the
\* second, which counts no start.
C36_Witness ==
    /\ Len(LogOf(6)) = 2
    /\ Today(LogOf(6)[1].at) = Today(StartTime)
    /\ Today(LogOf(6)[2].at) = Today(StartTime) + 1
    /\ StartsOf(stats, Today(StartTime), 6) = 1
    /\ RuntimeOf(stats, Today(StartTime), 6) = 0
    /\ <<Today(StartTime) + 1, 6>> \in DOMAIN stats
    /\ StartsOf(stats, Today(StartTime) + 1, 6) = 0
    /\ RuntimeOf(stats, Today(StartTime) + 1, 6) = LogOf(6)[2].at - LogOf(6)[1].at

(***************************************************************************)
(* The units of a dryer pair                                               *)
(***************************************************************************)

\* C37: when every reading of a pair channel is delivered through
\* updateDryerPair, a second unit that is Running with no stop timer armed has
\* its first unit Running with no stop timer armed as well.
C37_SecondNeverAlone ==
    \A ch \in PairChannels : Running(Second(ch)) => Running(First(ch))

\* Both units run with no timer, the second in its second run, the first
\* still in its first.
C37_Witness ==
    /\ Running(5) /\ Running(6)
    /\ Len(LogOf(5)) = 1 /\ Len(LogOf(6)) = 3
    /\ machines[5].startedAt < machines[6].startedAt

(***************************************************************************)
(* Properties of the payload shapes                                        *)
(***************************************************************************)

\* The machines a physical channel of the meter stands for.
MappedTo(ch) ==
    IF ch \in PairChannels THEN Units(ch)
    ELSE IF ch \in Washers THEN {ch}
    ELSE {}
Untouched(id) ==
    /\ machines'[id] = machines[id]
    /\ stopTimers'[id] = stopTimers[id]
    /\ TimeoutsOf(id)' = TimeoutsOf(id)
    /\ EventsOf(effects', id) = <<>>
    /\ \A d \in Days : /\ StartsOf(stats', d, id) = StartsOf(stats, d, id)
                       /\ RuntimeOf(stats', d, id) = RuntimeOf(stats, d, id)

\* C38: a message that carries one reading, in whatever shape, leaves the
\* record, the stop timer and the stats of every machine the reading's channel
\* is not mapped to unchanged (washer channel c to machine c, pair channel 5 to
\* machines 5 and 6, pair channel 6 to machines 7 and 8).
C38_ChannelFrame ==
    [][MessageStep /\ IsSingleReading(last'.msg) =>
          \A id \in MachineIds \ MappedTo(ReadingOf(last'.msg).channel) : Untouched(id)]_vars

ArrayShapes == {"notify", "channels", "energy"}
\* The machines the i-th entry of a message is about.
Targets(msg, i) ==
    IF msg.shape = "energy" THEN {i} \cap MachineIds
    ELSE IF msg.shape = "notify" /\ msg.entries[i].channel \in PairChannels
    THEN Units(msg.entries[i].channel)
    ELSE {msg.entries[i].channel} \cap MachineIds
Skipped(id) ==
    /\ machines'[id].power = machines[id].power
    /\ machines'[id].isRunning = machines[id].isRunning
    /\ stopTimers'[id] = stopTimers[id]
    /\ TimeoutsOf(id)' = TimeoutsOf(id)
\* In the shapes given, an entry without a power value leaves the machines it
\* is about (and no other entry of the message is about) as they are.
NoPowerSkipped(shapes) ==
    MessageStep /\ last'.msg.shape \in shapes =>
        \A i \in 1 .. Len(last'.msg.entries) :
            LET e == last'.msg.entries[i]
            IN  ~e.malformed /\ e.power = Undefined =>
                    \A id \in Targets(last'.msg, i) :
                        (\A j \in 1 .. Len(last'.msg.entries) :
                            j # i => id \notin Targets(last'.msg, j)) => Skipped(id)

\* C39: in the notify-status envelope, the per-channel array and the
\* positional energy array alike, an entry that carries no power value leaves
\* the last observed power, the running state and the stop timer of its
\* machine unchanged.
C39_NoPowerSkipped == [][NoPowerSkipped(ArrayShapes)]_vars

\* The message without its malformed entries.
WellFormed(msg) == [msg EXCEPT !.entries = SelectSeq(@, LAMBDA e : ~e.malformed)]

\* C40: a message with several entries (notify-status envelope or per-channel
\* array) leaves machines, timers, ledger and events exactly as the same
\* message without its malformed entries would, wherever they stand.
C40_Isolation ==
    [][MessageStep /\ last'.msg.shape \in {"notify", "channels"} =>
          SameButFile(OnMessage(Engine(<<>>), WellFormed(last'.msg), now))]_vars

====
